---- MODULE Spec2Model ----
(***************************************************************************)
(* The request-to-artifact pipeline of esbuild-proxy (src/main.go): the    *)
(* HTTP handler that fetches a source URL, follows redirects by hand,      *)
(* looks the canonical URL up in the on-disk cache, and on a miss builds   *)
(* the bundle in a temporary workspace, writes it to the cache and serves  *)
(* it.  Every request runs the handler on its own goroutine; the cache     *)
(* directory is the only state the goroutines share.                       *)
(***************************************************************************)
EXTENDS Integers, Sequences, FiniteSets, TLC

\* ------------------------------------------------------------------ bounds
\* Requests the server handles in one run (each on its own goroutine).
NumReqs == 2
\* The hop counter kept for the properties saturates here (the code counts nothing).
MaxHops == 2

Reqs == 1..NumReqs

\* ------------------------------------------------------------------ strings
\* URL strings are sequences of characters over a small alphabet.
Names == {"a", "b"}
Q == "?"
Slash == "/"
Empty == << >>

\* The URL strings the upstream knows: a name, with or without a (blank) query.
URLs == {<<n>> : n \in Names} \cup {<<n, Q>> : n \in Names}

\* Request targets a client can send: the root, or "/" followed by a URL.
Targets == {<<Slash>>} \cup {<<Slash>> \o u : u \in URLs}

\* Index of the first "?" of s, 0 when there is none.
FirstQ(s) ==
    IF \E i \in 1..Len(s) : s[i] = Q
    THEN CHOOSE i \in 1..Len(s) : s[i] = Q /\ \A j \in 1..(i - 1) : s[j] # Q
    ELSE 0

\* net/http splits the request target at the first "?" into URL.Path and URL.RawQuery.
PathOf(t) == IF FirstQ(t) = 0 THEN t ELSE SubSeq(t, 1, FirstQ(t) - 1)
RawQueryOf(t) == IF FirstQ(t) = 0 THEN Empty ELSE SubSeq(t, FirstQ(t) + 1, Len(t))

\* strings.TrimPrefix(p, "/")
TrimPrefixSlash(p) == IF Len(p) > 0 /\ p[1] = Slash THEN Tail(p) ELSE p

\* fullURL := path + "?" + r.URL.RawQuery
FullURLOf(t) == TrimPrefixSlash(PathOf(t)) \o <<Q>> \o RawQueryOf(t)

\* ------------------------------------------------------------------ upstream
\* What the upstream answers for a URL: 200, a terminal failure status, or a
\* redirect with a Location that resolves to loc (Empty: no usable Location).
UpOK == [kind |-> "ok", loc |-> Empty]
UpFail == [kind |-> "fail", loc |-> Empty]
UpRedirect(u) == [kind |-> "redirect", loc |-> u]
UpAnswers == {UpOK, UpFail} \cup {UpRedirect(u) : u \in URLs \cup {Empty}}

\* A loop that follows only 301 and 302.
RedirectStatusMut(s) == s \in {301, 302}
\* The statuses the loop of the handler follows.
RedirectStatus(s) == s \in {301, 302, 303, 307}

FailStatuses == {308, 404, 500}
\* The status codes an upstream answer of a kind can carry.
StatusesOf(kind) ==
    IF kind = "ok" THEN {200}
    ELSE IF kind = "redirect" THEN {301, 302, 303, 307}
    ELSE FailStatuses

\* A status check that lets every status below 400 through.
StatusOKMut(s) == s < 400
\* resp.StatusCode != http.StatusOK is the upstream failure.
StatusOK(s) == s = 200

\* ------------------------------------------------------------------ hashing
\* sha256 of the URL, first 20 hex digits: injective on the modelled URLs.
CacheKey(url) == <<"k">> \o url
Keys == {CacheKey(u) : u \in URLs}

\* sha256 of the bundle, first 16 bytes, quoted.
ETag(bytes) == <<"e">> \o bytes

\* The bundling engine's output for an entry file with this content (the entry
\* content is the body the upstream serves at the URL): code, then the
\* sourceMappingURL trailer.
BuildOutput(url) == url \o <<"map">>

Prefixes(s) == {SubSeq(s, 1, n) : n \in 0..(Len(s) - 1)}

\* ------------------------------------------------------------------ files
NoFile == [exists |-> FALSE, data |-> Empty]
File(bytes) == [exists |-> TRUE, data |-> bytes]

\* A cache check that never finds the file.
StatNeverHit(c, k) == FALSE
\* _, err := os.Stat(cachePath); err == nil
StatHit(c, k) == c[k].exists

Packages == {"p"}

VARIABLES
    upstream,    \* URL -> answer of the upstream server (fixed during a run)
    cache,       \* key -> file under .cache/
    workspaces,  \* temporary directories that exist
    disk,        \* directory -> its manifest and the requests that used it
    req          \* request -> state of its handler goroutine

vars == <<upstream, cache, workspaces, disk, req>>

\* ------------------------------------------------------------------ directories
\* The process's working directory, which holds package.json, bun.lock and
\* tsconfig.json (the relative paths of os.ReadFile and an empty cmd.Dir).
Cwd == 0
\* The names os.MkdirTemp can give to a temporary directory.
TempNames == 1..NumReqs
Dirs == {Cwd} \cup TempNames
\* The dependencies package.json declares at startup.
BaseManifest == {}
NoDir == [deps |-> {}, readers |-> {}, writers |-> {}]
InitDisk == [d \in Dirs |-> IF d = Cwd THEN [NoDir EXCEPT !.deps = BaseManifest] ELSE NoDir]

\* os.MkdirTemp("", "vite-build-*"): a name no existing directory has (which
\* one does not matter: the caller's number if it is free).
MkdirTemp(existing, r) ==
    IF r \notin existing THEN r ELSE CHOOSE d \in TempNames : d \notin existing

ReadBy(dk, d, r) == [dk EXCEPT ![d].readers = @ \cup {r}]
WrittenBy(dk, d, r) == [dk EXCEPT ![d].writers = @ \cup {r}]

\* ------------------------------------------------------------------ responses
NoResp ==
    [kind |-> "none", status |-> 0, ctype |-> "", location |-> Empty,
     body |-> Empty, etag |-> Empty, acao |-> FALSE, msg |-> ""]

\* sendError: Content-Type set, status left at the default 200, two statements.
sendError(msg) ==
    [NoResp EXCEPT !.kind = "error", !.status = 200,
                   !.ctype = "application/javascript",
                   !.body = <<"console.error(msg);", "console.error(err)">>,
                   !.msg = msg]

HtmlPage ==
    [NoResp EXCEPT !.kind = "html", !.status = 200,
                   !.ctype = "text/html; charset=utf-8", !.body = <<"html">>]

\* w.Header().Set("Location", "/"+fullURL); w.WriteHeader(http.StatusFound)
RedirectTo(url) ==
    [NoResp EXCEPT !.kind = "redirect", !.status = 302,
                   !.location = <<Slash>> \o url]

\* The handler panicked: net/http recovers, logs and closes the connection.
Aborted == [NoResp EXCEPT !.kind = "aborted"]

\* A 304 sent before the cross-origin header is set.
NotModifiedNoCors(etag) == [NoResp EXCEPT !.kind = "notmod", !.status = 304]
\* ACAO is set, then If-None-Match == etag: WriteHeader(304), no body.
NotModified(etag) ==
    [NoResp EXCEPT !.kind = "notmod", !.status = 304, !.acao = TRUE]

BundleResp(bytes, etag) ==
    [NoResp EXCEPT !.kind = "bundle", !.status = 200,
                   !.ctype = "application/javascript", !.body = bytes,
                   !.etag = etag, !.acao = TRUE]

\* ------------------------------------------------------------------ requests
IdleReq ==
    [pc |-> "Idle", originalURL |-> Empty, fullURL |-> Empty, status |-> 0,
     loc |-> Empty, hops |-> 0, hash |-> Empty, trace |-> << >>,
     exit |-> 0, missing |-> {},
     installArgs |-> [save |-> FALSE, targets |-> {}], installRuns |-> 0, ws |-> FALSE, tmpDir |-> Cwd,
     errors |-> 0, bundle |-> Empty, wrote |-> FALSE, entryAtCheck |-> FALSE,
     builtBefore |-> FALSE, follows |-> FALSE, inm |-> Empty,
     inmEarlier |-> FALSE, resp |-> NoResp]

OffReq == [IdleReq EXCEPT !.pc = "Off"]

Finish(q, resp) == [q EXCEPT !.pc = "Done", !.resp = resp]
Enter(q, stage) == [q EXCEPT !.pc = stage, !.trace = Append(@, stage)]

Terminal(r) == req[r].pc = "Done"

\* A finished request that built the bundle itself and served it.
Built(r) ==
    /\ Terminal(r)
    /\ req[r].wrote
    /\ req[r].resp.kind \in {"bundle", "notmod"}

\* ------------------------------------------------------------------ initial states
Up(aq, a, bq, b) ==
    [u \in URLs |->
        IF u = <<"a", Q>> THEN aq
        ELSE IF u = <<"a">> THEN a
        ELSE IF u = <<"b", Q>> THEN bq
        ELSE b]

\* Upstream configurations of the concurrent specification: two buildable URLs;
\* a two-hop chain b? -> a -> a? (200); a redirect a? -> a (200) next to a
\* redirect b? -> b (failure); a self-loop next to a two-cycle; a redirect
\* without Location next to a failure.
Scenarios ==
    { Up(UpOK, UpFail, UpOK, UpFail),
      Up(UpOK, UpRedirect(<<"a", Q>>), UpRedirect(<<"a">>), UpFail),
      Up(UpRedirect(<<"a">>), UpOK, UpRedirect(<<"b">>), UpFail),
      Up(UpRedirect(<<"a", Q>>), UpFail, UpRedirect(<<"b">>), UpRedirect(<<"b", Q>>)),
      Up(UpRedirect(Empty), UpOK, UpFail, UpOK) }

EmptyCache == [k \in Keys |-> NoFile]
\* The cache directory outlives the process: entries of an earlier run.
WarmCache == [k \in Keys |-> File(BuildOutput(Tail(k)))]

\* After main's setup (.cache exists, listener bound), no request received yet.
Init ==
    /\ upstream \in Scenarios
    /\ cache = EmptyCache
    /\ workspaces = {}
    /\ disk = InitDisk
    /\ req = [r \in Reqs |-> IdleReq]

\* One request against every upstream configuration, cache cold or warm.
InitFetch ==
    /\ upstream \in [URLs -> UpAnswers]
    /\ cache \in {EmptyCache, WarmCache}
    /\ workspaces = {}
    /\ disk = InitDisk
    /\ req = [r \in Reqs |-> IF r = 1 THEN IdleReq ELSE OffReq]

\* ------------------------------------------------------------------ the handler
\* client.Get(url): a transport error, or the upstream's answer (the client
\* never follows a redirect itself: CheckRedirect returns ErrUseLastResponse).
GetResults(url) ==
    {[err |-> TRUE, status |-> 0, loc |-> Empty]} \cup
    {[err |-> FALSE, status |-> s, loc |-> upstream[url].loc] :
        s \in StatusesOf(upstream[url].kind)}

\* A request arrives (ids are given in arrival order).  The root path serves
\* the HTML page; any other target becomes fullURL and originalURL.
Start(r) ==
    /\ req[r].pc = "Idle"
    /\ \A o \in Reqs : o < r => req[o].pc # "Idle"
    /\ \E t \in Targets :
        IF PathOf(t) = <<Slash>>
        THEN req' = [req EXCEPT ![r] = Finish(@, HtmlPage)]
        ELSE req' = [req EXCEPT ![r] =
                Enter([@ EXCEPT
                    !.originalURL = FullURLOf(t),
                    !.fullURL = FullURLOf(t),
                    !.builtBefore =
                        \E o \in Reqs : Built(o) /\ req[o].hash = CacheKey(FullURLOf(t)),
                    !.follows =
                        \E o \in Reqs : /\ Terminal(o)
                                        /\ req[o].resp.kind = "redirect"
                                        /\ req[o].resp.location = t
                                        /\ upstream[Tail(t)].kind = "ok"],
                    "Fetching")]
    /\ UNCHANGED <<upstream, cache, workspaces, disk>>

\* resp, err := client.Get(fullURL)
Fetch(r) ==
    /\ req[r].pc = "Fetching"
    /\ \E g \in GetResults(req[r].fullURL) :
        req' = [req EXCEPT ![r] =
            IF g.err THEN Finish(@, sendError("Failed to fetch URL"))
            ELSE [@ EXCEPT !.pc = "Redirecting", !.status = g.status, !.loc = g.loc]]
    /\ UNCHANGED <<upstream, cache, workspaces, disk>>

Hop(q) ==
    [q EXCEPT !.hops = IF @ < MaxHops THEN @ + 1 ELSE @,
              !.trace = IF q.hops = 0 THEN Append(@, "RedirectHop") ELSE @]

\* One iteration of the redirect loop: u, _ := resp.Location() ignores the
\* error, so without a usable Location u is nil and u.String() panics.
FollowRedirect(r) ==
    /\ req[r].pc = "Redirecting"
    /\ RedirectStatus(req[r].status)
    /\ IF req[r].loc = Empty
       THEN req' = [req EXCEPT ![r] = Finish(@, Aborted)]
       ELSE \E g \in GetResults(req[r].loc) :
            req' = [req EXCEPT ![r] =
                IF g.err
                THEN Finish([Hop(@) EXCEPT !.fullURL = req[r].loc],
                            sendError("Failed to follow redirect"))
                ELSE [Hop(@) EXCEPT !.fullURL = req[r].loc,
                                    !.status = g.status, !.loc = g.loc]]
    /\ UNCHANGED <<upstream, cache, workspaces, disk>>

\* A comparison that takes every final URL for the requested one.
CanonicalAlways(q) == TRUE
\* originalURL != fullURL is the canonicalization mismatch.
Canonical(q) == q.originalURL = q.fullURL

\* Loop exit: the status check, the canonical comparison, the hash.
Canonicalize(r) ==
    /\ req[r].pc = "Redirecting"
    /\ ~RedirectStatus(req[r].status)
    /\ req' = [req EXCEPT ![r] =
        IF ~StatusOK(req[r].status)
        THEN Finish(@, sendError("Failed to fetch URL: status"))
        ELSE IF ~Canonical(req[r])
        THEN Finish(@, RedirectTo(req[r].fullURL))
        ELSE Enter([@ EXCEPT !.hash = CacheKey(req[r].fullURL)], "CacheCheck")]
    /\ UNCHANGED <<upstream, cache, workspaces, disk>>

\* os.Stat(cachePath): a hit serves from the cache; a miss reads the body.
CacheCheck(r) ==
    /\ req[r].pc = "CacheCheck"
    /\ \E readOK \in BOOLEAN :
        req' = [req EXCEPT ![r] =
            IF StatHit(cache, req[r].hash)
            THEN Enter([@ EXCEPT !.entryAtCheck = cache[req[r].hash].exists], "Serving")
            ELSE IF readOK
            THEN Enter([@ EXCEPT !.entryAtCheck = cache[req[r].hash].exists],
                       "WorkspaceSetup")
            ELSE Finish([@ EXCEPT !.entryAtCheck = cache[req[r].hash].exists],
                        sendError("Failed to read response"))]
    /\ UNCHANGED <<upstream, cache, workspaces, disk>>

SetupFailures ==
    {"Failed to create src dir", "Failed to read package file",
     "Failed to write package file", "Failed to write index.ts"}

\* os.MkdirTemp, the src directory, the three package files, src/index.ts.
WorkspaceSetup(r) ==
    /\ req[r].pc = "WorkspaceSetup"
    /\ LET tmpDir == MkdirTemp(workspaces, r)
           made == WrittenBy(disk, tmpDir, r)
       IN \/ /\ req' = [req EXCEPT ![r] =
                    Finish(@, sendError("Failed to create temp dir"))]
             /\ UNCHANGED <<workspaces, disk>>
          \/ /\ \E m \in SetupFailures :
                /\ req' = [req EXCEPT ![r] =
                        Finish([@ EXCEPT !.ws = TRUE, !.tmpDir = tmpDir], sendError(m))]
                /\ disk' = IF m = "Failed to create src dir" THEN made
                           ELSE ReadBy(made, Cwd, r)
             /\ workspaces' = workspaces \cup {tmpDir}
          \/ /\ req' = [req EXCEPT ![r] =
                    Enter([@ EXCEPT !.ws = TRUE, !.tmpDir = tmpDir], "Discovery")]
             /\ disk' = [ReadBy(made, Cwd, r) EXCEPT ![tmpDir].deps = disk[Cwd].deps]
             /\ workspaces' = workspaces \cup {tmpDir}
    /\ UNCHANGED <<upstream, cache>>

\* A tool that runs in the process's working directory.
ToolDirCwd(q) == Cwd
\* cmd.Dir = tmpDir, for both tools.
ToolDir(q) == q.tmpDir

\* How a run of the discovery tool ends: it cannot be started (-1), or it exits.
DiscoveryExits == {-1, 0, 1, 255}
\* An exit test that takes only exit 0 for a finished run.
DiscoveryPassesZeroOnly(code) == code = 0
\* err == nil, or an ExitError whose ExitCode() is 255.
DiscoveryPasses(code) == code = 0 \/ code = 255

\* bunx depcheck --json src/index.ts, then json.Unmarshal of its output.
Discovery(r) ==
    /\ req[r].pc = "Discovery"
    /\ \E code \in DiscoveryExits, parsed \in BOOLEAN, missing \in SUBSET Packages :
        /\ LET q == [req[r] EXCEPT !.exit = code]
           IN req' = [req EXCEPT ![r] =
            IF ~DiscoveryPasses(code)
            THEN Finish(q, sendError("Depcheck failed"))
            ELSE IF ~parsed
            THEN Finish(q, sendError("Failed to parse depcheck output"))
            ELSE Enter([q EXCEPT !.missing = missing], "Install")]
        /\ disk' = IF code = -1 THEN disk ELSE ReadBy(disk, ToolDir(req[r]), r)
    /\ UNCHANGED <<upstream, cache, workspaces>>

\* The arguments of the baseline install, whatever is missing.
InstallArgsBaseline(missing) == [save |-> FALSE, targets |-> {}]
\* args: "install", then "--save" and every key of depcheck.Missing, if any.
InstallArgs(missing) == [save |-> missing # {}, targets |-> missing]

\* bun install [--save pkg...]; err = cmd.Run() replaces the discovery's err.
Install(r) ==
    /\ req[r].pc = "Install"
    /\ \E ok \in BOOLEAN, saved \in SUBSET InstallArgs(req[r].missing).targets :
        /\ ok => saved = InstallArgs(req[r].missing).targets
        /\ req' = [req EXCEPT ![r] =
            IF ok
            THEN Enter([@ EXCEPT !.installArgs = InstallArgs(req[r].missing),
                                 !.installRuns = @ + 1,
                                 !.exit = 0], "Bundling")
            ELSE Finish([@ EXCEPT !.installArgs = InstallArgs(req[r].missing),
                                  !.installRuns = @ + 1,
                                  !.exit = 1],
                        sendError("bun install failed"))]
        \* --save records the installed targets in the package.json of cmd.Dir.
        /\ disk' = [WrittenBy(ReadBy(disk, ToolDir(req[r]), r), ToolDir(req[r]), r)
                        EXCEPT ![ToolDir(req[r])].deps = @ \cup saved]
    /\ UNCHANGED <<upstream, cache, workspaces>>

\* An error test that lets a single build error through.
BuildFailedOffByOne(errors) == errors > 1
\* len(result.Errors) > 0
BuildFailed(errors) == errors > 0

\* api.Build (entry point and Outfile under tmpDir), then os.ReadFile of
\* dist/bundle.js.
Bundle(r) ==
    /\ req[r].pc = "Bundling"
    /\ \E errors \in {0, 1}, readOK \in BOOLEAN :
        req' = [req EXCEPT ![r] =
            IF BuildFailed(errors)
            THEN Finish([@ EXCEPT !.errors = errors], sendError("Build failed"))
            ELSE IF ~readOK
            THEN Finish([@ EXCEPT !.errors = errors],
                        sendError("Failed to read bundle.js"))
            ELSE Enter([@ EXCEPT !.errors = errors,
                                 !.bundle = BuildOutput(req[r].fullURL)],
                       "CacheWrite")]
    /\ disk' = WrittenBy(ReadBy(disk, req[r].tmpDir, r), req[r].tmpDir, r)
    /\ UNCHANGED <<upstream, cache, workspaces>>

\* os.WriteFile, first half: OpenFile(O_WRONLY|O_CREATE|O_TRUNC).
CacheWriteOpen(r) ==
    /\ req[r].pc = "CacheWrite"
    /\ \/ /\ req' = [req EXCEPT ![r] = Finish(@, sendError("Failed to write to cache"))]
          /\ UNCHANGED cache
       \/ /\ req' = [req EXCEPT ![r] = [@ EXCEPT !.pc = "CacheFill", !.wrote = TRUE]]
          /\ cache' = [cache EXCEPT ![req[r].hash] = File(Empty)]
    /\ UNCHANGED <<upstream, workspaces, disk>>

\* A write that adds the bytes after what the file holds.
WriteBytesAppend(old, data) == old \o data
\* f.Write(data) on a file opened without O_APPEND: the bytes go to offset 0
\* and replace what the file holds there.
WriteBytes(old, data) == data \o SubSeq(old, Len(data) + 1, Len(old))

\* os.WriteFile, second half: f.Write(data) and Close; then serveBundle.
CacheWriteFill(r) ==
    /\ req[r].pc = "CacheFill"
    /\ \/ /\ req' = [req EXCEPT ![r] = Enter(@, "Serving")]
          /\ cache' = [cache EXCEPT ![req[r].hash] =
                            File(WriteBytes(@.data, req[r].bundle))]
       \/ /\ req' = [req EXCEPT ![r] = Finish(@, sendError("Failed to write to cache"))]
          /\ \E p \in Prefixes(req[r].bundle) :
                cache' = [cache EXCEPT ![req[r].hash] = File(WriteBytes(@.data, p))]
    /\ UNCHANGED <<upstream, workspaces, disk>>

\* The If-None-Match headers a client may send: none, or an ETag it holds.
InmHeaders(url) == {Empty, ETag(Empty), ETag(BuildOutput(url))}

\* serveBundle: one os.ReadFile, the ETag of what was read, 304 or 200.
Serve(r) ==
    /\ req[r].pc = "Serving"
    /\ \E readOK \in BOOLEAN, inm \in InmHeaders(req[r].fullURL) :
        LET file == cache[req[r].hash]
            etag == ETag(file.data)
            q == [req[r] EXCEPT
                    !.inm = inm,
                    !.inmEarlier =
                        \E o \in Reqs : /\ Terminal(o)
                                        /\ req[o].resp.kind = "bundle"
                                        /\ req[o].hash = req[r].hash
                                        /\ req[o].resp.etag = inm]
        IN req' = [req EXCEPT ![r] =
            IF ~file.exists \/ ~readOK
            THEN Finish(req[r], sendError("Failed to read from cache"))
            ELSE IF inm = etag
            THEN Finish(q, NotModified(etag))
            ELSE Finish(q, BundleResp(file.data, etag))]
    /\ UNCHANGED <<upstream, cache, workspaces, disk>>

Next ==
    \E r \in Reqs :
        \/ Start(r)
        \/ Fetch(r)
        \/ FollowRedirect(r)
        \/ Canonicalize(r)
        \/ CacheCheck(r)
        \/ WorkspaceSetup(r)
        \/ Discovery(r)
        \/ Install(r)
        \/ Bundle(r)
        \/ CacheWriteOpen(r)
        \/ CacheWriteFill(r)
        \/ Serve(r)

Spec == Init /\ [][Next]_vars

FetchSpec == InitFetch /\ [][Next]_vars

\* Every goroutine that can take a step eventually takes one.
Fairness == \A r \in Reqs : WF_vars(
    Fetch(r) \/ FollowRedirect(r) \/ Canonicalize(r) \/ CacheCheck(r)
    \/ WorkspaceSetup(r) \/ Discovery(r) \/ Install(r) \/ Bundle(r)
    \/ CacheWriteOpen(r) \/ CacheWriteFill(r) \/ Serve(r))

FairFetchSpec == InitFetch /\ [][Next]_vars /\ Fairness

\* ------------------------------------------------------------------ properties
\* Where the upstream's redirect chain from u ends: the first URL that does
\* not answer with a redirect carrying a Location (fuel bounds a cycle).
RECURSIVE ChainEnd(_, _)
ChainEnd(u, fuel) ==
    IF fuel = 0 \/ upstream[u].kind # "redirect" \/ upstream[u].loc = Empty
    THEN u
    ELSE ChainEnd(upstream[u].loc, fuel - 1)

Resolved(u) == ChainEnd(u, Cardinality(URLs))

\* The error responses of a hop that could not be fetched at all.
TransportErrors == {"Failed to fetch URL", "Failed to follow redirect"}
TransportFailed(r) ==
    req[r].resp.kind = "error" /\ req[r].resp.msg \in TransportErrors

NonRoot(r) == req[r].originalURL \in URLs
BuildStages == {"WorkspaceSetup", "Discovery", "Install", "Bundling", "CacheWrite"}
Stages(r) == {req[r].trace[i] : i \in 1..Len(req[r].trace)}
FetchOnly(r) ==
    /\ Stages(r) \subseteq {"Fetching", "RedirectHop"}
    /\ req[r].hash = Empty
    /\ ~req[r].ws
    /\ ~req[r].wrote

\* The step in which request r opens the cache file for writing.
OpensCacheFile(r) == req[r].pc = "CacheWrite" /\ req'[r].pc = "CacheFill"
\* An entry no request is in the middle of writing.
Settled(k) ==
    cache[k].exists /\ \A r \in Reqs : ~(req[r].pc = "CacheFill" /\ req[r].hash = k)

\* C1 (as claimed): an entry is created exactly once and never rewritten: no
\* request opens for writing a key that already has an entry, and the bytes of
\* a written entry never change.
C1_CreatedOnceNeverRewritten ==
    [][ /\ \A r \in Reqs : OpensCacheFile(r) => ~cache[req[r].hash].exists
        /\ \A k \in Keys : Settled(k) => cache'[k] = cache[k] ]_vars

\* C1 (amended): an entry is created or rewritten only by the cache write of a
\* request whose own cache check found no entry under the key and whose build
\* finished without errors, and an entry, once created, is never removed.
C1_WrittenOnlyAfterOwnMiss ==
    [][ /\ \A r \in Reqs :
            OpensCacheFile(r) =>
                /\ ~req[r].entryAtCheck
                /\ req[r].errors = 0
                /\ req[r].hash = CacheKey(req[r].fullURL)
        /\ \A k \in Keys :
            /\ cache[k].exists => cache'[k].exists
            /\ cache'[k] # cache[k] =>
                \E r \in Reqs : /\ req[r].hash = k
                                /\ req[r].pc \in {"CacheWrite", "CacheFill"}
                                /\ req'[r] # req[r] ]_vars

\* Two finished requests both wrote the same key.
C1_Witness ==
    \E r1, r2 \in Reqs :
        /\ r1 # r2
        /\ Built(r1) /\ Built(r2)
        /\ req[r1].hash = req[r2].hash

\* C2: every 200 bundle response carries the complete output of a finished
\* build of its key, never an empty or partly written cache file.
C2_BundleBodyComplete ==
    \A r \in Reqs :
        (Terminal(r) /\ req[r].resp.kind = "bundle") =>
            req[r].resp.body = BuildOutput(req[r].fullURL)

\* C3: two bundle responses for one key have the same body and ETag, and a
\* request sending the ETag of an earlier 200 response of the key gets 304
\* with an empty body.
C3_ServingIdempotent ==
    /\ \A r1, r2 \in Reqs :
        ( /\ Terminal(r1) /\ req[r1].resp.kind = "bundle"
          /\ Terminal(r2) /\ req[r2].resp.kind = "bundle"
          /\ req[r1].hash = req[r2].hash ) =>
            /\ req[r1].resp.body = req[r2].resp.body
            /\ req[r1].resp.etag = req[r2].resp.etag
    /\ \A r \in Reqs :
        ( /\ Terminal(r)
          /\ req[r].resp.kind \in {"bundle", "notmod"}
          /\ req[r].inmEarlier ) =>
            /\ req[r].resp.kind = "notmod"
            /\ req[r].resp.body = Empty

\* The upstream redirects the requested URL and the chain ends at a 200.
ChainTo200(r) ==
    /\ NonRoot(r)
    /\ upstream[req[r].originalURL].kind = "redirect"
    /\ upstream[Resolved(req[r].originalURL)].kind = "ok"

\* C4: a request whose upstream chain has at least one redirect and ends at C
\* answering 200 is answered 302 with Location "/" + C, and runs no cache
\* check, workspace setup, discovery, install, bundling or cache write.
C4_RedirectShortCircuits ==
    \A r \in Reqs :
        ChainTo200(r) =>
            /\ req[r].pc \in {"Fetching", "Redirecting", "Done"}
            /\ FetchOnly(r)
            /\ (Terminal(r) /\ ~TransportFailed(r)) =>
                    req[r].resp = RedirectTo(Resolved(req[r].originalURL))

\* A two-hop chain was followed to its 200 and answered with the 302.
C4_Witness ==
    \E r \in Reqs :
        /\ Terminal(r)
        /\ ChainTo200(r)
        /\ req[r].hops >= 2
        /\ req[r].resp.kind = "redirect"
        /\ req[r].resp.location = <<Slash>> \o Resolved(req[r].originalURL)

\* C5: every request that starts fetching reaches a terminal state, whatever
\* the upstream's redirects are.
C5_RequestsTerminate ==
    \A r \in Reqs : (req[r].pc = "Fetching") ~> Terminal(r)

\* C6: a request whose target is the Location of an earlier 302, with the
\* Location's URL answering 200, gets no second 302: unless a hop cannot be
\* fetched it reaches the cache check; and once such a request has built the
\* bundle a later identical request finds the entry.
C6_ConvergesInOneHop ==
    \A r \in Reqs :
        /\ (Terminal(r) /\ req[r].follows /\ ~TransportFailed(r)) =>
                /\ req[r].resp.kind # "redirect"
                /\ "CacheCheck" \in Stages(r)
        /\ (req[r].follows /\ req[r].builtBefore /\ "CacheCheck" \in Stages(r)
                /\ req[r].pc # "CacheCheck") => req[r].entryAtCheck

\* The upstream's chain from the requested URL ends at a failure status.
ChainToFailure(r) ==
    /\ NonRoot(r)
    /\ upstream[Resolved(req[r].originalURL)].kind = "fail"

\* C7: a request whose terminal upstream status is not 200, directly or after
\* redirects, ends in a failure response, enters no stage from the cache check
\* on, and leaves the cache as it was.
C7_UpstreamFailureStopsPipeline ==
    \A r \in Reqs :
        ChainToFailure(r) =>
            /\ req[r].pc \in {"Fetching", "Redirecting", "Done"}
            /\ FetchOnly(r)
            /\ cache \in {EmptyCache, WarmCache}
            /\ Terminal(r) => req[r].resp.kind = "error"

\* A failure status at the end of a redirect chain was reported.
C7_Witness ==
    \E r \in Reqs :
        /\ Terminal(r)
        /\ ChainToFailure(r)
        /\ req[r].hops >= 1
        /\ req[r].resp = sendError("Failed to fetch URL: status")

\* C8: a request that ends in an error response has created or changed no
\* cache entry.
C8_NoEntryOnFailure ==
    \A r \in Reqs :
        (Terminal(r) /\ req[r].resp.kind = "error") => ~req[r].wrote

\* C9: every failed non-root request gets the script-shaped error response:
\* status 200, Content-Type application/javascript, two console.error
\* statements; none is left without a response.
C9_FailuresAnswered ==
    \A r \in Reqs :
        (Terminal(r) /\ NonRoot(r)) =>
            /\ req[r].resp.kind # "aborted"
            /\ req[r].resp.kind = "error" =>
                /\ req[r].resp.status = 200
                /\ req[r].resp.ctype = "application/javascript"
                /\ Len(req[r].resp.body) = 2

\* A request that arrived after a build of its URL had been served.
AfterBuild(r) ==
    /\ NonRoot(r)
    /\ req[r].builtBefore
    /\ upstream[req[r].originalURL].kind = "ok"

\* C10: the key is a function of the canonical URL; a request for U that
\* starts after a request for U was served its own build finds the entry, is
\* a cache hit and runs no build stage or cache write; no entry is removed.
C10_Memoized ==
    /\ [](\A r \in Reqs :
            /\ req[r].hash # Empty => req[r].hash = CacheKey(req[r].originalURL)
            /\ AfterBuild(r) =>
                /\ Stages(r) \cap BuildStages = {}
                /\ ~req[r].wrote
                /\ ~req[r].ws
                /\ ("CacheCheck" \in Stages(r) /\ req[r].pc # "CacheCheck") =>
                        /\ req[r].entryAtCheck
                        /\ "Serving" \in Stages(r))
    /\ [][\A k \in Keys : cache[k].exists => cache'[k].exists]_vars

\* A later request for a built URL was served from the cache.
C10_Witness ==
    \E r \in Reqs :
        /\ Terminal(r)
        /\ AfterBuild(r)
        /\ req[r].resp.kind \in {"bundle", "notmod"}
        /\ req[r].trace = <<"Fetching", "CacheCheck", "Serving">>

\* The stages from the cache check on.
LateStages == BuildStages \cup {"CacheCheck", "Serving"}

\* C11: a request at the cache check or any later stage hashes a fully
\* resolved URL: the last upstream response was a 200, not a redirect status,
\* the requested URL string equals the final one, and the upstream has no
\* further redirect for it.
C11_HashedURLResolved ==
    \A r \in Reqs :
        (Stages(r) \cap LateStages # {} \/ req[r].hash # Empty) =>
            /\ req[r].status = 200
            /\ ~RedirectStatus(req[r].status)
            /\ req[r].originalURL = req[r].fullURL
            /\ req[r].hash = CacheKey(req[r].fullURL)
            /\ upstream[req[r].fullURL].kind = "ok"

\* A request is bundling.
C11_Witness ==
    \E r \in Reqs :
        /\ req[r].pc = "Bundling"
        /\ req[r].status = 200
        /\ req[r].originalURL = req[r].fullURL

IsPrefix(s, t) == Len(s) <= Len(t) /\ s = SubSeq(t, 1, Len(s))
\* The stage sequences of a cache hit and of a miss with a full build.
HitPath == <<"CacheCheck", "Serving">>
MissPath ==
    <<"CacheCheck", "WorkspaceSetup", "Discovery", "Install", "Bundling",
      "CacheWrite", "Serving">>
StagePaths ==
    {pre \o post : pre \in {<<"Fetching">>, <<"Fetching", "RedirectHop">>},
                   post \in {HitPath, MissPath}}
\* The stages a request has entered are an initial part of one pipeline path.
InPipelineOrder(r) == \E p \in StagePaths : IsPrefix(req[r].trace, p)

\* C12: the stages of a request run in the pipeline's order, each entered at
\* most once and only after the earlier ones succeeded; the cache is written
\* only after a bundling run with zero errors; and a request that fails ends
\* directly in the error response.
C12_StagesInOrder ==
    \A r \in Reqs :
        /\ InPipelineOrder(r)
        /\ req[r].installRuns <= 1
        /\ req[r].wrote =>
                /\ "Bundling" \in Stages(r)
                /\ req[r].errors = 0
                /\ req[r].bundle = BuildOutput(req[r].fullURL)
        /\ (Terminal(r) /\ NonRoot(r)) =>
                req[r].resp.kind \in {"bundle", "notmod", "redirect", "error"}

\* The stages that follow dependency discovery.
AfterDiscovery == {"Install", "Bundling", "CacheWrite", "Serving"}
\* The discovery tool has run and the installer has not: exit is its result.
DiscoveryEnded(r) ==
    /\ "Discovery" \in Stages(r)
    /\ req[r].pc # "Discovery"
    /\ req[r].installRuns = 0

\* C13: a discovery run that exits 255 is treated like one that exits 0: the
\* request goes on to parsing and, if the output parses, to installation; a
\* run that exits with another nonzero code or cannot be started ends the
\* request with an error response, and neither the installer nor the bundler
\* is invoked.
C13_DiscoveryExitHandling ==
    \A r \in Reqs :
        /\ DiscoveryEnded(r) =>
            IF req[r].exit \in {0, 255}
            THEN \/ req[r].pc = "Install"
                 \/ /\ Terminal(r)
                    /\ req[r].resp = sendError("Failed to parse depcheck output")
            ELSE /\ Terminal(r)
                 /\ req[r].resp = sendError("Depcheck failed")
        /\ (Terminal(r) /\ req[r].resp = sendError("Depcheck failed")) =>
                 /\ req[r].exit \notin {0, 255}
                 /\ req[r].installRuns = 0
                 /\ req[r].errors = 0 /\ req[r].bundle = Empty
                 /\ Stages(r) \cap AfterDiscovery = {}
                 /\ ~req[r].wrote

\* A discovery run exited 255 and the request went on to the installation.
C13_Witness ==
    \E r \in Reqs :
        /\ DiscoveryEnded(r)
        /\ req[r].exit = 255
        /\ req[r].pc = "Install"

\* The installer of request r has run.
InstallEnded(r) == "Install" \in Stages(r) /\ req[r].pc # "Install"

\* C14: a request that passed discovery invokes the installer exactly once,
\* with exactly the keys of the missing-dependency set as targets (none when
\* the set is empty); an installer failure ends the request with an error
\* response, without a second run and without bundling.
C14_InstalledOnceWithMissingKeys ==
    \A r \in Reqs :
        /\ req[r].installRuns = IF InstallEnded(r) THEN 1 ELSE 0
        /\ InstallEnded(r) =>
            /\ req[r].installArgs.targets = req[r].missing
            /\ req[r].installArgs.save = (req[r].missing # {})
            /\ \/ "Bundling" \in Stages(r)
               \/ /\ Terminal(r)
                  /\ req[r].resp = sendError("bun install failed")
        /\ (Terminal(r) /\ req[r].resp = sendError("bun install failed")) =>
            /\ req[r].installRuns = 1
            /\ req[r].exit # 0
            /\ Stages(r) \cap {"Bundling", "CacheWrite", "Serving"} = {}
            /\ req[r].bundle = Empty
            /\ ~req[r].wrote

\* The installer ran once with the one missing package as its target.
C14_Witness ==
    \E r \in Reqs :
        /\ InstallEnded(r)
        /\ req[r].missing = {"p"}
        /\ req[r].installArgs = [save |-> TRUE, targets |-> {"p"}]
        /\ req[r].installRuns = 1
        /\ "Bundling" \in Stages(r)

\* The requests whose workspace is directory d.
Owners(d) == {r \in Reqs : req[r].ws /\ req[r].tmpDir = d}

\* C15: every build attempt has a workspace of its own, which no other
\* request reads or writes; the discovery and install tools of a request
\* write only inside that workspace; the manifest files of the working
\* directory are only read and keep their contents.
C15_WorkspaceIsolation ==
    /\ \A r1, r2 \in Reqs :
            (r1 # r2 /\ req[r1].ws /\ req[r2].ws) => req[r1].tmpDir # req[r2].tmpDir
    /\ \A r \in Reqs : req[r].ws => req[r].tmpDir \in workspaces \ {Cwd}
    /\ \A d \in TempNames :
            /\ Cardinality(Owners(d)) <= 1
            /\ disk[d].readers \cup disk[d].writers \subseteq Owners(d)
            /\ d \notin workspaces => disk[d] = NoDir
    /\ \A r \in Reqs :
            \A d \in Dirs : r \in disk[d].writers => (req[r].ws /\ d = req[r].tmpDir)
    /\ disk[Cwd].writers = {}
    /\ disk[Cwd].deps = BaseManifest

\* Two requests have installed into two workspaces, one of them with --save,
\* while the working directory's manifest was read by both.
C15_Witness ==
    \E r1, r2 \in Reqs :
        /\ r1 # r2
        /\ req[r1].installRuns = 1 /\ req[r2].installRuns = 1
        /\ req[r1].tmpDir # req[r2].tmpDir
        /\ disk[req[r1].tmpDir].deps = {"p"}
        /\ r1 \in disk[req[r1].tmpDir].writers
        /\ r2 \in disk[req[r2].tmpDir].writers
        /\ disk[Cwd].readers = {r1, r2}

\* The requests whose handler is running.
InFlight == {r \in Reqs : req[r].pc \notin {"Idle", "Off", "Done"}}

\* C16: once a request has reached its terminal state the workspace it
\* created no longer exists, so there are never more live workspaces than
\* requests in flight.
C16_WorkspaceDiscarded ==
    /\ \A r \in Reqs : (Terminal(r) /\ req[r].ws) => req[r].tmpDir \notin workspaces
    /\ Cardinality(workspaces) <= Cardinality(InFlight)

\* The requests that opened the file of key k for writing.
Writers(k) == {r \in Reqs : req[r].wrote /\ req[r].hash = k}
\* The cache write of request r returned without error.
WriteDone(r) == req[r].wrote /\ "Serving" \in Stages(r)

\* C17: requests for one uncached URL may all miss, build and write the same
\* key; once every request that wrote the key has finished its write, the
\* entry holds the complete bundle, as after a single build.
C17_DuplicateBuildsConverge ==
    \A k \in Keys :
        (Writers(k) # {} /\ \A r \in Writers(k) : WriteDone(r)) =>
            cache[k] = File(BuildOutput(Tail(k)))

\* Two requests missed on the same key, both built and wrote it, with the
\* second opening the file after the first had filled it; the entry is whole.
C17_Witness ==
    \E r1, r2 \in Reqs :
        /\ r1 # r2
        /\ req[r1].hash = req[r2].hash
        /\ ~req[r1].entryAtCheck /\ ~req[r2].entryAtCheck
        /\ req[r1].installRuns = 1 /\ req[r2].installRuns = 1
        /\ Writers(req[r1].hash) = {r1, r2}
        /\ Built(r1) /\ Built(r2)
        /\ cache[req[r1].hash] = File(BuildOutput(req[r1].fullURL))

\* The response of request r was produced by serveBundle.
ServedByServeBundle(r) == Terminal(r) /\ "Serving" \in Stages(r)

\* C18 (as claimed): the ETag of a 200 bundle response is the hash of exactly
\* the body sent with it, whatever concurrent writers of the key do; and every
\* response serveBundle produces, 200 or 304, carries
\* Access-Control-Allow-Origin: *.
C18_ETagMatchesBodyAndCors ==
    \A r \in Reqs :
        ServedByServeBundle(r) =>
            /\ req[r].resp.kind = "bundle" =>
                    /\ req[r].resp.status = 200
                    /\ req[r].resp.etag = ETag(req[r].resp.body)
            /\ req[r].resp.status \in {200, 304} => req[r].resp.acao

\* C18 (amended): the ETag of a 200 bundle response is the hash of exactly
\* the body sent with it, whatever concurrent writers of the key do; the 200
\* bundle response and the 304 response carry Access-Control-Allow-Origin: *,
\* and the 304 has no body; the only other response serveBundle produces is
\* the error response of a failed read, which has status 200 and does not
\* carry the header.
C18_ETagAndCorsOnBundleResponses ==
    \A r \in Reqs :
        ServedByServeBundle(r) =>
            /\ req[r].resp.kind = "bundle" =>
                    /\ req[r].resp.status = 200
                    /\ req[r].resp.etag = ETag(req[r].resp.body)
                    /\ req[r].resp.acao
            /\ req[r].resp.kind = "notmod" =>
                    /\ req[r].resp.status = 304
                    /\ req[r].resp.body = Empty
                    /\ req[r].resp.acao
            /\ req[r].resp.kind \notin {"bundle", "notmod"} =>
                    /\ req[r].resp = sendError("Failed to read from cache")
                    /\ ~req[r].resp.acao

\* A request was served the file while another request was between opening
\* and filling it: the body and the ETag are those of the empty file.
C18_Witness ==
    \E r1, r2 \in Reqs :
        /\ r1 # r2
        /\ req[r1].hash = req[r2].hash
        /\ ServedByServeBundle(r1)
        /\ req[r1].resp = BundleResp(Empty, ETag(Empty))
        /\ req[r1].resp.acao
        /\ req[r2].pc = "CacheFill"
====
